---- MODULE Spec2Model ----
(***************************************************************************)
(* Model of the compile-time configurable logging facade of kawel/logging: *)
(* the level gate and message composer of logging_stack.h, and the sink    *)
(* binding and queries of logging.c.                                       *)
(*                                                                         *)
(* A C string literal is modelled as a sequence of pieces (TLA+ strings);  *)
(* a conversion specifier ("%s", "%d") is always a piece of its own, so    *)
(* that adjacent-literal concatenation is \o on sequences and Flat gives   *)
(* the text of the literal.                                                *)
(***************************************************************************)
EXTENDS Integers, Sequences, FiniteSets, TLC

(***************************************************************************)
(* Bounds of the model.                                                    *)
(***************************************************************************)
MaxExec == 2

(***************************************************************************)
(* logging_levels.h                                                        *)
(***************************************************************************)
LOG_NONE == 0
LOG_ERROR == 1
LOG_WARN == 2
LOG_INFO == 3
LOG_DEBUG == 4

LOGGING_VERSION == "unknown"

(***************************************************************************)
(* Values of the pointer log_function.                                     *)
(***************************************************************************)
NULL == "NULL"
default_log_function == "default_log_function"
UserSinks == {"main_custom_log_function", "module_custom_log_function"}
SinkStatuses == {-1, 0, 1}

(***************************************************************************)
(* Build configuration: what the build system may pass for each symbol.    *)
(* LIBRARY_LOG_LEVEL is undefined, one of the five macros, a number, or an *)
(* identifier that is not a macro.  WIN32 says whether the compiler        *)
(* predefines _WIN32.                                                      *)
(***************************************************************************)
LevelMacros == {"LOG_NONE", "LOG_ERROR", "LOG_WARN", "LOG_INFO", "LOG_DEBUG"}

LevelSettings ==
    {[kind |-> "undefined", name |-> "", val |-> 0]}
    \cup {[kind |-> "macro", name |-> n, val |-> 0] : n \in LevelMacros}
    \cup {[kind |-> "number", name |-> "", val |-> v] : v \in {-1, 5}}
    \cup {[kind |-> "identifier", name |-> "LOG_VERBOSE", val |-> 0]}

NameSettings == {<<>>, <<"APP">>}
Configs ==
    [LIBRARY_LOG_LEVEL : LevelSettings,
     DISABLE_LOGGING : BOOLEAN,
     LIBRARY_LOG_NAME : NameSettings,
     LIBRARY_PRINT_FILE_PATH : BOOLEAN,
     LIBRARY_PRINT_FILENAME_ONLY : BOOLEAN,
     LIBRARY_PRINT_FUNCTION_NAME : BOOLEAN,
     WIN32 : {FALSE}]

(***************************************************************************)
(* Arguments of a variadic call.                                           *)
(***************************************************************************)
StrArg(s) == [t |-> "s", s |-> s, i |-> 0]
IntArg(i) == [t |-> "d", s |-> "", i |-> i]

(***************************************************************************)
(* Call sites: file (as characters), line, enclosing function, and the     *)
(* caller's format and arguments.                                          *)
(***************************************************************************)
CallSites ==
    {[file |-> <<"s", "/", "a", ".", "c">>, line |-> 42, func |-> "doWork",
      fmt |-> <<"ok">>, args |-> <<>>],
     [file |-> <<"m", ".", "c">>, line |-> 7, func |-> "main",
      fmt |-> <<"boom ", "%d">>, args |-> <<IntArg(5)>>],
     [file |-> <<"l", "/", "n", "/", "t", ".", "c">>, line |-> 120, func |-> "run",
      fmt |-> <<"%s", "=", "%d">>, args |-> <<StrArg("x"), IntArg(3)>>]}

(***************************************************************************)
(* State.  cfg and build describe the translation unit; log_function is    *)
(* the pointer of logging.c; the rest records what the run has done:       *)
(* calls is the sequence of functions entered through log_function,        *)
(* lastCall the most recent such call with what it was passed and what it  *)
(* returned, nActive the number of executions of a macro with a call in    *)
(* its expansion, nOutput the number of messages a sink has written,       *)
(* halted the outcome of a call through a null pointer, lastInitArg the    *)
(* argument of the latest Logging_Init ("none" before the first),          *)
(* queryResult what the latest query returned, and lastExec the macro and  *)
(* call site whose expansion made the call recorded in lastCall.           *)
(***************************************************************************)
(* thread gives, for each thread of the process, its position inside a     *)
(* logging call, and log_mutex the holder of the mutex of a sink that      *)
(* locks (0 when free).  logging_level is the file-scope variable of the   *)
(* logging.c that takes a threshold in Logging_Init (part_006:13), and     *)
(* lastLevelArg the threshold argument of the latest such call (<<>>       *)
(* before the first).                                                      *)
(* macroValue is what the latest expansion that reached a sink evaluated   *)
(* to at its call site: an active LogX(...) is the expression              *)
(* log_function(...) (logging_stack.h:114, 134-155), whose value is the    *)
(* int the sink returned (<<>> while no expansion has reached a sink).     *)
VARIABLES cfg, build, log_function, lastInitArg, nExec, nActive,
          calls, lastCall, lastExec, nOutput, halted, queryResult,
          thread, log_mutex, logging_level, lastLevelArg, macroValue

vars == <<cfg, build, log_function, lastInitArg, nExec, nActive,
          calls, lastCall, lastExec, nOutput, halted, queryResult,
          thread, log_mutex, logging_level, lastLevelArg, macroValue>>

NoCall == [target |-> "none", fmt |-> <<>>, args |-> <<>>, status |-> 0]
NoResult == [fn |-> "none", arg |-> 0, ret |-> StrArg("")]
NoExec == [macro |-> "none",
           site |-> [file |-> <<>>, line |-> 0, func |-> "", fmt |-> <<>>,
                     args |-> <<>>]]
Threads == {1, 2}
IdleThread == [pc |-> "idle", fp |-> NULL, macro |-> NoExec.macro,
               site |-> NoExec.site]
NullCallOutcomes == {"fault", "wild", "ignored"}

(***************************************************************************)
(* Text helpers.                                                           *)
(***************************************************************************)
RECURSIVE Flat(_)
Flat(pieces) ==
    IF pieces = <<>> THEN "" ELSE Head(pieces) \o Flat(Tail(pieces))

Digit(d) ==
    CASE d = 0 -> "0" [] d = 1 -> "1" [] d = 2 -> "2" [] d = 3 -> "3"
      [] d = 4 -> "4" [] d = 5 -> "5" [] d = 6 -> "6" [] d = 7 -> "7"
      [] d = 8 -> "8" [] d = 9 -> "9"

(* LOGGING_STRINGIZE(__LINE__): the decimal text of the line number. *)
RECURSIVE LOGGING_STRINGIZE(_)
LOGGING_STRINGIZE(n) ==
    IF n < 10 THEN Digit(n)
    ELSE LOGGING_STRINGIZE(n \div 10) \o Digit(n % 10)

LOGGING_LINE_STRING(site) == LOGGING_STRINGIZE(site.line)

(* strrchr: index of the last occurrence of ch in s, 0 when there is none. *)
strrchr(s, ch) ==
    LET hits == {i \in 1..Len(s) : s[i] = ch}
    IN IF hits = {} THEN 0 ELSE CHOOSE i \in hits : \A j \in hits : j <= i

(* logging_stack.h:44-48: the character LOGGING_FILENAME searches for. *)
PathSeparator(c) == IF c.WIN32 THEN "\\" ELSE "/"

LOGGING_FILENAME(c, site) ==
    IF strrchr(site.file, PathSeparator(c)) # 0
    THEN SubSeq(site.file, strrchr(site.file, PathSeparator(c)) + 1,
                Len(site.file))
    ELSE site.file

(***************************************************************************)
(* The preprocessor's view of LIBRARY_LOG_LEVEL inside #if: a macro is     *)
(* replaced by its value, an identifier that is not a macro by 0.          *)
(***************************************************************************)
LevelMacroValue(name) ==
    CASE name = "LOG_NONE" -> LOG_NONE
      [] name = "LOG_ERROR" -> LOG_ERROR
      [] name = "LOG_WARN" -> LOG_WARN
      [] name = "LOG_INFO" -> LOG_INFO
      [] name = "LOG_DEBUG" -> LOG_DEBUG

PPValue(setting) ==
    CASE setting.kind = "macro" -> LevelMacroValue(setting.name)
      [] setting.kind = "number" -> setting.val
      [] setting.kind = "identifier" -> 0
      [] setting.kind = "undefined" -> 0

(* logging_stack.h:124-130, the condition of the #error. *)
BuildRejected(c) ==
    \/ c.LIBRARY_LOG_LEVEL.kind = "undefined"
    \/ /\ PPValue(c.LIBRARY_LOG_LEVEL) # LOG_NONE
       /\ PPValue(c.LIBRARY_LOG_LEVEL) # LOG_ERROR
       /\ PPValue(c.LIBRARY_LOG_LEVEL) # LOG_WARN
       /\ PPValue(c.LIBRARY_LOG_LEVEL) # LOG_INFO
       /\ PPValue(c.LIBRARY_LOG_LEVEL) # LOG_DEBUG

(***************************************************************************)
(* logging_stack.h:132-167: which of the four macros have a body, per      *)
(* branch of the #if cascade.                                              *)
(***************************************************************************)
LogErrorDefined(c) ==
    CASE PPValue(c.LIBRARY_LOG_LEVEL) = LOG_DEBUG -> TRUE
      [] PPValue(c.LIBRARY_LOG_LEVEL) = LOG_INFO -> TRUE
      [] PPValue(c.LIBRARY_LOG_LEVEL) = LOG_WARN -> TRUE
      [] PPValue(c.LIBRARY_LOG_LEVEL) = LOG_ERROR -> TRUE
      [] OTHER -> FALSE

(* LogWarn left with a body in the LOG_ERROR branch. *)
LogWarnDefined_AtError(c) ==
    CASE PPValue(c.LIBRARY_LOG_LEVEL) = LOG_DEBUG -> TRUE
      [] PPValue(c.LIBRARY_LOG_LEVEL) = LOG_INFO -> TRUE
      [] PPValue(c.LIBRARY_LOG_LEVEL) = LOG_WARN -> TRUE
      [] PPValue(c.LIBRARY_LOG_LEVEL) = LOG_ERROR -> TRUE
      [] OTHER -> FALSE

LogWarnDefined(c) ==
    CASE PPValue(c.LIBRARY_LOG_LEVEL) = LOG_DEBUG -> TRUE
      [] PPValue(c.LIBRARY_LOG_LEVEL) = LOG_INFO -> TRUE
      [] PPValue(c.LIBRARY_LOG_LEVEL) = LOG_WARN -> TRUE
      [] PPValue(c.LIBRARY_LOG_LEVEL) = LOG_ERROR -> FALSE
      [] OTHER -> FALSE

LogInfoDefined(c) ==
    CASE PPValue(c.LIBRARY_LOG_LEVEL) = LOG_DEBUG -> TRUE
      [] PPValue(c.LIBRARY_LOG_LEVEL) = LOG_INFO -> TRUE
      [] PPValue(c.LIBRARY_LOG_LEVEL) = LOG_WARN -> FALSE
      [] PPValue(c.LIBRARY_LOG_LEVEL) = LOG_ERROR -> FALSE
      [] OTHER -> FALSE

(* A cascade whose every branch gives LogDebug a body. *)
LogDebugDefined_Always(c) == TRUE

LogDebugDefined(c) ==
    CASE PPValue(c.LIBRARY_LOG_LEVEL) = LOG_DEBUG -> TRUE
      [] PPValue(c.LIBRARY_LOG_LEVEL) = LOG_INFO -> FALSE
      [] PPValue(c.LIBRARY_LOG_LEVEL) = LOG_WARN -> FALSE
      [] PPValue(c.LIBRARY_LOG_LEVEL) = LOG_ERROR -> FALSE
      [] OTHER -> FALSE

(***************************************************************************)
(* logging_stack.h:67-101: the prefix block and the location suffix, each  *)
(* a literal and the arguments that go with it.                            *)
(***************************************************************************)
(* A prefix block that drops the module tag when the file path is printed. *)
LOG_METADATA_FMT_PathOnly(c, site) ==
    IF c.LIBRARY_PRINT_FILE_PATH
    THEN <<"(", Flat(site.file), ") ">>
    ELSE IF c.LIBRARY_LOG_NAME # <<>>
    THEN IF c.LIBRARY_PRINT_FILENAME_ONLY
         THEN <<"[">> \o c.LIBRARY_LOG_NAME \o <<"] (", "%s", ") ">>
         ELSE <<"[">> \o c.LIBRARY_LOG_NAME \o <<"] ">>
    ELSE IF c.LIBRARY_PRINT_FILENAME_ONLY
         THEN <<"(", "%s", ") ">>
         ELSE <<"">>

LOG_METADATA_FMT(c, site) ==
    IF c.LIBRARY_LOG_NAME # <<>>
    THEN IF c.LIBRARY_PRINT_FILE_PATH
         THEN <<"[">> \o c.LIBRARY_LOG_NAME \o <<"] (", Flat(site.file), ") ">>
         ELSE IF c.LIBRARY_PRINT_FILENAME_ONLY
              THEN <<"[">> \o c.LIBRARY_LOG_NAME \o <<"] (", "%s", ") ">>
              ELSE <<"[">> \o c.LIBRARY_LOG_NAME \o <<"] ">>
    ELSE IF c.LIBRARY_PRINT_FILE_PATH
         THEN <<"(", Flat(site.file), ") ">>
         ELSE IF c.LIBRARY_PRINT_FILENAME_ONLY
              THEN <<"(", "%s", ") ">>
              ELSE <<"">>

LOG_METADATA_ARG(c, site) ==
    IF ~c.LIBRARY_PRINT_FILE_PATH /\ c.LIBRARY_PRINT_FILENAME_ONLY
    THEN <<StrArg(Flat(LOGGING_FILENAME(c, site)))>>
    ELSE <<>>

FUNCTION_INFO_FMT(c) ==
    IF c.LIBRARY_PRINT_FUNCTION_NAME
    THEN <<"(", "%s", "):", "%s", " - ">>
    ELSE <<":", "%s", " - ">>

(* The location arguments in the opposite order: line, then function. *)
FUNCTION_INFO_ARG_LineFirst(c, site) ==
    IF c.LIBRARY_PRINT_FUNCTION_NAME
    THEN <<StrArg(LOGGING_LINE_STRING(site)), StrArg(site.func)>>
    ELSE <<StrArg(LOGGING_LINE_STRING(site))>>

FUNCTION_INFO_ARG(c, site) ==
    IF c.LIBRARY_PRINT_FUNCTION_NAME
    THEN <<StrArg(site.func), StrArg(LOGGING_LINE_STRING(site))>>
    ELSE <<StrArg(LOGGING_LINE_STRING(site))>>

(* The caller's arguments placed before the inserted ones. *)
Compose_CallerArgsFirst(tag, c, site) ==
    [fmt |-> <<tag>> \o LOG_METADATA_FMT(c, site) \o FUNCTION_INFO_FMT(c)
                 \o site.fmt \o <<"\r\n">>,
     args |-> site.args \o LOG_METADATA_ARG(c, site)
                 \o FUNCTION_INFO_ARG(c, site)]

(* A message terminated by a bare line feed. *)
Compose_BareLF(tag, c, site) ==
    [fmt |-> <<tag>> \o LOG_METADATA_FMT(c, site) \o FUNCTION_INFO_FMT(c)
                 \o site.fmt \o <<"\n">>,
     args |-> LOG_METADATA_ARG(c, site) \o FUNCTION_INFO_ARG(c, site)
                 \o site.args]

(* The argument list of SdkLog in the body of a logging macro (l.134-137). *)
Compose(tag, c, site) ==
    [fmt |-> <<tag>> \o LOG_METADATA_FMT(c, site) \o FUNCTION_INFO_FMT(c)
                 \o site.fmt \o <<"\r\n">>,
     args |-> LOG_METADATA_ARG(c, site) \o FUNCTION_INFO_ARG(c, site)
                 \o site.args]

(***************************************************************************)
(* Initial state: any build configuration, nothing compiled or run yet;    *)
(* logging.c:46 initialises log_function to NULL.                          *)
(***************************************************************************)
Init ==
    /\ cfg \in Configs
    /\ build = "pending"
    /\ log_function = NULL
    /\ lastInitArg = "none"
    /\ nExec = 0
    /\ nActive = 0
    /\ calls = <<>>
    /\ lastCall = NoCall
    /\ macroValue = <<>>
    /\ lastExec = NoExec
    /\ nOutput = 0
    /\ halted = "no"
    /\ queryResult = NoResult
    /\ thread = [t \in Threads |-> IdleThread]
    /\ log_mutex = 0
    /\ logging_level = LOG_NONE
    /\ lastLevelArg = <<>>

(* Preprocessing of logging_stack.h: the #error of l.124-130 or acceptance. *)
Compile ==
    /\ build = "pending"
    /\ build' = IF BuildRejected(cfg) THEN "rejected" ELSE "accepted"
    /\ UNCHANGED <<logging_level, lastLevelArg, thread, log_mutex,
                   cfg, log_function, lastInitArg, nExec, nActive,
                   calls, lastCall, macroValue, lastExec, nOutput, halted, queryResult>>

Running == build = "accepted" /\ halted = "no"

(* Logging_Init storing its argument without the null test. *)
Logging_Init_NoNullCheck(log_func) ==
    /\ Running
    /\ log_function' = log_func
    /\ lastInitArg' = log_func
    /\ UNCHANGED <<logging_level, lastLevelArg, thread, log_mutex,
                   cfg, build, nExec, nActive, calls, lastCall, macroValue, lastExec,
                   nOutput, halted, queryResult>>

(* Logging_Init with the branches of the null test exchanged. *)
Logging_Init_Inverted(log_func) ==
    /\ Running
    /\ log_function' = IF log_func # NULL THEN default_log_function
                       ELSE log_func
    /\ lastInitArg' = log_func
    /\ UNCHANGED <<logging_level, lastLevelArg, thread, log_mutex,
                   cfg, build, nExec, nActive, calls, lastCall, macroValue, lastExec,
                   nOutput, halted, queryResult>>

(* Logging_Init binding only when nothing is bound yet. *)
Logging_Init_FirstWins(log_func) ==
    /\ Running
    /\ log_function' = IF log_function # NULL THEN log_function
                       ELSE IF log_func # NULL THEN log_func
                       ELSE default_log_function
    /\ lastInitArg' = log_func
    /\ UNCHANGED <<logging_level, lastLevelArg, thread, log_mutex,
                   cfg, build, nExec, nActive, calls, lastCall, macroValue, lastExec,
                   nOutput, halted, queryResult>>

(* An initialisation by the example module that leaves the binding of the  *)
(* other translation units alone.                                          *)
Logging_Init_ModuleLocal(log_func) ==
    /\ Running
    /\ log_function' = IF log_func = "module_custom_log_function"
                          /\ log_function # NULL
                       THEN log_function
                       ELSE IF log_func # NULL THEN log_func
                       ELSE default_log_function
    /\ lastInitArg' = log_func
    /\ UNCHANGED <<logging_level, lastLevelArg, thread, log_mutex,
                   cfg, build, nExec, nActive, calls, lastCall, macroValue, lastExec,
                   nOutput, halted, queryResult>>

(* logging.c:54-64 *)
Logging_Init(log_func) ==
    /\ Running
    /\ log_function' = IF log_func # NULL THEN log_func
                       ELSE default_log_function
    /\ lastInitArg' = log_func
    /\ UNCHANGED <<logging_level, lastLevelArg, thread, log_mutex,
                   cfg, build, nExec, nActive, calls, lastCall, macroValue, lastExec,
                   nOutput, halted, queryResult>>

(* An expansion that calls a bound sink twice. *)
CallLogFunction_Twice(msg) ==
    IF log_function = NULL
    THEN /\ \E o \in NullCallOutcomes :
              halted' = IF o = "ignored" THEN "no" ELSE o
         /\ UNCHANGED <<calls, lastCall, macroValue, nOutput>>
    ELSE /\ calls' = Append(Append(calls, log_function), log_function)
         /\ \E st \in (IF log_function = default_log_function THEN {0}
                        ELSE SinkStatuses) :
              (/\ lastCall' = [target |-> log_function, fmt |-> msg.fmt,
                           args |-> msg.args, status |-> st]
               /\ macroValue' = <<st>>)
         /\ nOutput' = IF log_function = default_log_function THEN nOutput
                       ELSE nOutput + 2
         /\ UNCHANGED halted

(***************************************************************************)
(* The indirect call log_function(message, ...) of SdkLog.  A call through *)
(* the null pointer is undefined: it faults, transfers control to          *)
(* whatever is at address zero, or has no effect.  default_log_function    *)
(* (logging.c:48-52) returns 0 and does nothing else; a user sink writes   *)
(* the message and returns some status.                                    *)
(***************************************************************************)
CallLogFunction(msg) ==
    IF log_function = NULL
    THEN /\ \E o \in NullCallOutcomes :
              halted' = IF o = "ignored" THEN "no" ELSE o
         /\ UNCHANGED <<calls, lastCall, macroValue, nOutput>>
    ELSE IF log_function = default_log_function
    THEN /\ calls' = Append(calls, log_function)
         /\ (/\ lastCall' = [target |-> log_function, fmt |-> msg.fmt,
                         args |-> msg.args, status |-> 0]
             /\ macroValue' = <<0>>)
         /\ UNCHANGED <<nOutput, halted>>
    ELSE /\ calls' = Append(calls, log_function)
         /\ \E st \in SinkStatuses :
              (/\ lastCall' = [target |-> log_function, fmt |-> msg.fmt,
                           args |-> msg.args, status |-> st]
               /\ macroValue' = <<st>>)
         /\ nOutput' = nOutput + 1
         /\ UNCHANGED halted

(* SdkLog defined as the call whether or not DISABLE_LOGGING is defined. *)
SdkLog_AlwaysOn(msg) ==
    /\ nActive' = nActive + 1
    /\ CallLogFunction(msg)

(* logging_stack.h:113-117 *)
SdkLog(msg) ==
    IF ~cfg.DISABLE_LOGGING
    THEN /\ nActive' = nActive + 1
         /\ CallLogFunction(msg)
    ELSE UNCHANGED <<nActive, calls, lastCall, macroValue, nOutput, halted>>

(* An expansion that falls back to the no-op sink after an active call. *)
Expand_ResetsSink(defined, tag, site) ==
    /\ Running
    /\ nExec < MaxExec
    /\ nExec' = nExec + 1
    /\ IF defined
       THEN /\ SdkLog(Compose(tag, cfg, site))
            /\ log_function' = IF cfg.DISABLE_LOGGING THEN log_function
                               ELSE default_log_function
       ELSE UNCHANGED <<nActive, calls, lastCall, macroValue, nOutput, halted,
                        log_function>>
    /\ UNCHANGED <<logging_level, lastLevelArg, thread, log_mutex,
                   cfg, build, lastInitArg, queryResult>>

(* An expansion that also consults the threshold given at run time: it    *)
(* stays silent once Logging_Init was called with LOG_NONE.                *)
Expand_RuntimeGate(defined, tag, site) ==
    /\ Running
    /\ nExec < MaxExec
    /\ nExec' = nExec + 1
    /\ IF defined /\ lastLevelArg # <<LOG_NONE>>
       THEN SdkLog(Compose(tag, cfg, site))
       ELSE UNCHANGED <<nActive, calls, lastCall, macroValue, nOutput, halted>>
    /\ UNCHANGED <<logging_level, lastLevelArg, thread, log_mutex,
                   cfg, build, log_function, lastInitArg, queryResult>>

(* One execution of a logging macro at a call site: its expansion is       *)
(* SdkLog(...) when the macro has a body and nothing otherwise.            *)
Expand(defined, tag, site) ==
    /\ Running
    /\ nExec < MaxExec
    /\ nExec' = nExec + 1
    /\ IF defined
       THEN SdkLog(Compose(tag, cfg, site))
       ELSE UNCHANGED <<nActive, calls, lastCall, macroValue, nOutput, halted>>
    /\ UNCHANGED <<logging_level, lastLevelArg, thread, log_mutex,
                   cfg, build, log_function, lastInitArg, queryResult>>

(* Which macro at which call site made the latest call that reached a      *)
(* sink: the expansion has a body, SdkLog is not empty and a sink is bound. *)
Executed(macro, defined, site) ==
    lastExec' = IF defined /\ ~cfg.DISABLE_LOGGING /\ log_function # NULL
                THEN [macro |-> macro, site |-> site]
                ELSE lastExec

LogError(site) ==
    /\ Executed("LogError", LogErrorDefined(cfg), site)
    /\ Expand(LogErrorDefined(cfg), "[ERROR] ", site)

(* A warning tag padded with one space instead of two. *)
LogWarn_ShortTag(site) ==
    /\ Executed("LogWarn", LogWarnDefined(cfg), site)
    /\ Expand(LogWarnDefined(cfg), "[WARN] ", site)

LogWarn(site) ==
    /\ Executed("LogWarn", LogWarnDefined(cfg), site)
    /\ Expand(LogWarnDefined(cfg), "[WARN]  ", site)

LogInfo(site) ==
    /\ Executed("LogInfo", LogInfoDefined(cfg), site)
    /\ Expand(LogInfoDefined(cfg), "[INFO]  ", site)

LogDebug(site) ==
    /\ Executed("LogDebug", LogDebugDefined(cfg), site)
    /\ Expand(LogDebugDefined(cfg), "[DEBUG] ", site)

(* A version query that binds the no-op sink when none is bound yet. *)
Logging_GetVersion_LazyInit ==
    /\ Running
    /\ queryResult' = [fn |-> "Logging_GetVersion", arg |-> 0,
                       ret |-> StrArg(LOGGING_VERSION)]
    /\ log_function' = IF log_function = NULL THEN default_log_function
                       ELSE log_function
    /\ UNCHANGED <<logging_level, lastLevelArg, thread, log_mutex,
                   cfg, build, lastInitArg, nExec, nActive,
                   calls, lastCall, macroValue, lastExec, nOutput, halted>>

(* logging.c:66-69 *)
Logging_GetVersion ==
    /\ Running
    /\ queryResult' = [fn |-> "Logging_GetVersion", arg |-> 0,
                       ret |-> StrArg(LOGGING_VERSION)]
    /\ UNCHANGED <<logging_level, lastLevelArg, thread, log_mutex,
                   cfg, build, log_function, lastInitArg, nExec, nActive,
                   calls, lastCall, macroValue, lastExec, nOutput, halted>>

Next ==
    \/ Compile
    \/ \E f \in UserSinks \cup {NULL} : Logging_Init(f)
    \/ \E site \in CallSites : LogError(site)
    \/ \E site \in CallSites : LogWarn(site)
    \/ \E site \in CallSites : LogInfo(site)
    \/ \E site \in CallSites : LogDebug(site)
    \/ Logging_GetVersion

Spec == Init /\ [][Next]_vars

(***************************************************************************)
(* The variant of logging.c with the level queries (src/unnamed/part_007). *)
(* Its translation unit needs LOGGING_TOP_LOG_LEVEL, a build symbol of its *)
(* own, next to the LIBRARY_LOG_LEVEL that logging_stack.h reads in the    *)
(* caller's translation unit.  The message layout plays no part in the     *)
(* queries, so one layout is kept.                                         *)
(***************************************************************************)
INT_MIN == -2147483647 - 1
INT_MAX == 2147483647
TopLevelSettings == LOG_NONE..LOG_DEBUG
QueryLevels == (-1..5) \cup {INT_MIN, INT_MAX}
QueryConfigs ==
    [LIBRARY_LOG_LEVEL : LevelSettings,
     DISABLE_LOGGING : BOOLEAN,
     LIBRARY_LOG_NAME : {<<"APP">>},
     LIBRARY_PRINT_FILE_PATH : {FALSE},
     LIBRARY_PRINT_FILENAME_ONLY : {FALSE},
     LIBRARY_PRINT_FUNCTION_NAME : {TRUE},
     WIN32 : {FALSE},
     LOGGING_TOP_LOG_LEVEL : TopLevelSettings]

(* A switch whose LOG_DEBUG case is missing. *)
Logging_GetLoggingLevelName_NoDebugCase(level) ==
    CASE level = LOG_NONE -> "LOG_NONE"
      [] level = LOG_ERROR -> "LOG_ERROR"
      [] level = LOG_WARN -> "LOG_WARN"
      [] level = LOG_INFO -> "LOG_INFO"
      [] OTHER -> "UNKNOWN_LEVEL"

(* part_007:39-56, the value returned *)
Logging_GetLoggingLevelName(level) ==
    CASE level = LOG_NONE -> "LOG_NONE"
      [] level = LOG_ERROR -> "LOG_ERROR"
      [] level = LOG_WARN -> "LOG_WARN"
      [] level = LOG_INFO -> "LOG_INFO"
      [] level = LOG_DEBUG -> "LOG_DEBUG"
      [] OTHER -> "UNKNOWN_LEVEL"

(* part_007:58-61, the value returned *)
Logging_GetTopLoggingLevel == cfg.LOGGING_TOP_LOG_LEVEL

(* A call of Logging_GetLoggingLevelName(level). *)
Call_GetLoggingLevelName(level) ==
    /\ Running
    /\ queryResult' = [fn |-> "Logging_GetLoggingLevelName", arg |-> level,
                       ret |-> StrArg(Logging_GetLoggingLevelName(level))]
    /\ UNCHANGED <<logging_level, lastLevelArg, thread, log_mutex,
                   cfg, build, log_function, lastInitArg, nExec, nActive,
                   calls, lastCall, macroValue, lastExec, nOutput, halted>>

(* A call of Logging_GetTopLoggingLevel(). *)
Call_GetTopLoggingLevel ==
    /\ Running
    /\ queryResult' = [fn |-> "Logging_GetTopLoggingLevel", arg |-> 0,
                       ret |-> IntArg(Logging_GetTopLoggingLevel)]
    /\ UNCHANGED <<logging_level, lastLevelArg, thread, log_mutex,
                   cfg, build, log_function, lastInitArg, nExec, nActive,
                   calls, lastCall, macroValue, lastExec, nOutput, halted>>

InitQuery ==
    /\ cfg \in QueryConfigs
    /\ build = "pending"
    /\ log_function = NULL
    /\ lastInitArg = "none"
    /\ nExec = 0
    /\ nActive = 0
    /\ calls = <<>>
    /\ lastCall = NoCall
    /\ macroValue = <<>>
    /\ lastExec = NoExec
    /\ nOutput = 0
    /\ halted = "no"
    /\ queryResult = NoResult
    /\ thread = [t \in Threads |-> IdleThread]
    /\ log_mutex = 0
    /\ logging_level = LOG_NONE
    /\ lastLevelArg = <<>>

NextQuery ==
    \/ Next
    \/ \E level \in QueryLevels : Call_GetLoggingLevelName(level)
    \/ Call_GetTopLoggingLevel

SpecQuery == InitQuery /\ [][NextQuery]_vars

(***************************************************************************)
(* Two threads of one process logging through the shared pointer.  A       *)
(* logging call is no longer one step: the expansion log_function(...)     *)
(* loads the pointer, calls through the loaded value, and the sink runs    *)
(* and returns.  The sinks are custom_log_function of test.c:11-20, which  *)
(* writes without a lock, and thread_safe_log_function of readme.md:       *)
(* 422-436, which locks log_mutex, writes, unlocks and then returns, each  *)
(* a step of its own.  The message layout                                  *)
(* plays no part, so one layout and the call site in main are kept.        *)
(***************************************************************************)
ThreadSites == {site \in CallSites : site.func = "main"}
ThreadSafeSink == "thread_safe_log_function"
ThreadSinks == {"main_custom_log_function", ThreadSafeSink}
ThreadConfigs ==
    [LIBRARY_LOG_LEVEL : LevelSettings,
     DISABLE_LOGGING : BOOLEAN,
     LIBRARY_LOG_NAME : {<<"APP">>},
     LIBRARY_PRINT_FILE_PATH : {FALSE},
     LIBRARY_PRINT_FILENAME_ONLY : {FALSE},
     LIBRARY_PRINT_FUNCTION_NAME : {TRUE},
     WIN32 : {FALSE}]

MacroDefined(macro, c) ==
    CASE macro = "LogError" -> LogErrorDefined(c)
      [] macro = "LogWarn" -> LogWarnDefined(c)
      [] macro = "LogInfo" -> LogInfoDefined(c)
      [] macro = "LogDebug" -> LogDebugDefined(c)

MacroTag(macro) ==
    CASE macro = "LogError" -> "[ERROR] "
      [] macro = "LogWarn" -> "[WARN]  "
      [] macro = "LogInfo" -> "[INFO]  "
      [] macro = "LogDebug" -> "[DEBUG] "

(* The positions of a thread inside a sink: entered, producing output,     *)
(* output complete, and, in thread_safe_log_function, mutex released but   *)
(* not yet returned.                                                       *)
SinkPcs == {"in_sink", "writing", "written", "unlocked"}

(* Thread t executes a logging macro: an expansion with a body loads       *)
(* log_function (logging_stack.h:114); an empty expansion does nothing.    *)
ThreadLog(t, macro, site) ==
    /\ Running
    /\ thread[t].pc = "idle"
    /\ nExec < MaxExec
    /\ nExec' = nExec + 1
    /\ IF MacroDefined(macro, cfg) /\ ~cfg.DISABLE_LOGGING
       THEN /\ nActive' = nActive + 1
            /\ thread' = [thread EXCEPT ![t] =
                             [pc |-> "call", fp |-> log_function,
                              macro |-> macro, site |-> site]]
       ELSE UNCHANGED <<nActive, thread>>
    /\ UNCHANGED <<logging_level, lastLevelArg,
                   cfg, build, log_function, lastInitArg, calls, lastCall, macroValue,
                   lastExec, nOutput, halted, queryResult, log_mutex>>

(* A facade that lets one caller at a time into the sink. *)
ThreadCall_Serialized(t) ==
    /\ Running
    /\ thread[t].pc = "call"
    /\ \A u \in Threads : thread[u].pc \notin SinkPcs
    /\ IF thread[t].fp = NULL
       THEN /\ \E o \in NullCallOutcomes :
                 halted' = IF o = "ignored" THEN "no" ELSE o
            /\ thread' = [thread EXCEPT ![t] = IdleThread]
            /\ UNCHANGED calls
       ELSE /\ calls' = Append(calls, thread[t].fp)
            /\ thread' = [thread EXCEPT ![t].pc = "in_sink"]
            /\ UNCHANGED halted
    /\ UNCHANGED <<logging_level, lastLevelArg,
                   cfg, build, log_function, lastInitArg, nExec, nActive,
                   lastCall, macroValue, lastExec, nOutput, queryResult, log_mutex>>

(* The call through the loaded pointer: no lock is taken around it.  A     *)
(* null pointer gives the undefined call of CallLogFunction.               *)
ThreadCall(t) ==
    /\ Running
    /\ thread[t].pc = "call"
    /\ IF thread[t].fp = NULL
       THEN /\ \E o \in NullCallOutcomes :
                 halted' = IF o = "ignored" THEN "no" ELSE o
            /\ thread' = [thread EXCEPT ![t] = IdleThread]
            /\ UNCHANGED calls
       ELSE /\ calls' = Append(calls, thread[t].fp)
            /\ thread' = [thread EXCEPT ![t].pc = "in_sink"]
            /\ UNCHANGED halted
    /\ UNCHANGED <<logging_level, lastLevelArg,
                   cfg, build, log_function, lastInitArg, nExec, nActive,
                   lastCall, macroValue, lastExec, nOutput, queryResult, log_mutex>>

(* Inside a user sink: the output starts; thread_safe_log_function first   *)
(* waits for and takes log_mutex (readme.md:427).                          *)
ThreadWrite(t) ==
    /\ Running
    /\ thread[t].pc = "in_sink"
    /\ thread[t].fp # default_log_function
    /\ IF thread[t].fp = ThreadSafeSink
       THEN log_mutex = 0 /\ log_mutex' = t
       ELSE UNCHANGED log_mutex
    /\ thread' = [thread EXCEPT ![t].pc = "writing"]
    /\ UNCHANGED <<logging_level, lastLevelArg,
                   cfg, build, log_function, lastInitArg, nExec, nActive,
                   calls, lastCall, macroValue, lastExec, nOutput, halted, queryResult>>

(* vprintf returns: the message of the call is on the output             *)
(* (test.c:16, readme.md:431-432).                                         *)
ThreadWritten(t) ==
    /\ Running
    /\ thread[t].pc = "writing"
    /\ nOutput' = nOutput + 1
    /\ thread' = [thread EXCEPT ![t].pc = "written"]
    /\ UNCHANGED <<logging_level, lastLevelArg,
                   cfg, build, log_function, lastInitArg, nExec, nActive,
                   calls, lastCall, macroValue, lastExec, halted, queryResult, log_mutex>>

(* pthread_mutex_unlock(&log_mutex) of readme.md:434: the mutex is free    *)
(* while the thread is still inside the sink.                              *)
ThreadUnlock(t) ==
    /\ Running
    /\ thread[t].pc = "written"
    /\ thread[t].fp = ThreadSafeSink
    /\ log_mutex' = 0
    /\ thread' = [thread EXCEPT ![t].pc = "unlocked"]
    /\ UNCHANGED <<logging_level, lastLevelArg,
                   cfg, build, log_function, lastInitArg, nExec, nActive,
                   calls, lastCall, macroValue, lastExec, nOutput, halted, queryResult>>

(* An expansion that calls the sink again when it returned a negative      *)
(* status.                                                                 *)
ThreadReturn_Retry(t, st) ==
    /\ Running
    /\ \/ thread[t].pc = "unlocked"
       \/ thread[t].pc = "written" /\ thread[t].fp # ThreadSafeSink
       \/ thread[t].pc = "in_sink" /\ thread[t].fp = default_log_function
    /\ thread[t].fp = default_log_function => st = 0
    /\ LET msg == Compose(MacroTag(thread[t].macro), cfg, thread[t].site)
       IN lastCall' = [target |-> thread[t].fp, fmt |-> msg.fmt,
                       args |-> msg.args, status |-> st]
    /\ macroValue' = <<st>>
    /\ lastExec' = [macro |-> thread[t].macro, site |-> thread[t].site]
    /\ thread' = IF st < 0 THEN [thread EXCEPT ![t].pc = "call"]
                 ELSE [thread EXCEPT ![t] = IdleThread]
    /\ UNCHANGED <<logging_level, lastLevelArg,
                   cfg, build, log_function, lastInitArg, nExec, nActive,
                   calls, nOutput, halted, queryResult, log_mutex>>

(* return of the sink (test.c:19, readme.md:435, logging.c:51): status st  *)
(* goes back to the expansion, which drops it.                             *)
ThreadReturn(t, st) ==
    /\ Running
    /\ \/ thread[t].pc = "unlocked"
       \/ thread[t].pc = "written" /\ thread[t].fp # ThreadSafeSink
       \/ thread[t].pc = "in_sink" /\ thread[t].fp = default_log_function
    /\ thread[t].fp = default_log_function => st = 0
    /\ LET msg == Compose(MacroTag(thread[t].macro), cfg, thread[t].site)
       IN lastCall' = [target |-> thread[t].fp, fmt |-> msg.fmt,
                       args |-> msg.args, status |-> st]
    /\ macroValue' = <<st>>
    /\ lastExec' = [macro |-> thread[t].macro, site |-> thread[t].site]
    /\ thread' = [thread EXCEPT ![t] = IdleThread]
    /\ UNCHANGED <<logging_level, lastLevelArg,
                   cfg, build, log_function, lastInitArg, nExec, nActive,
                   calls, nOutput, halted, queryResult, log_mutex>>

InitThreads ==
    /\ cfg \in ThreadConfigs
    /\ build = "pending"
    /\ log_function = NULL
    /\ lastInitArg = "none"
    /\ nExec = 0
    /\ nActive = 0
    /\ calls = <<>>
    /\ lastCall = NoCall
    /\ macroValue = <<>>
    /\ lastExec = NoExec
    /\ nOutput = 0
    /\ halted = "no"
    /\ queryResult = NoResult
    /\ thread = [t \in Threads |-> IdleThread]
    /\ log_mutex = 0
    /\ logging_level = LOG_NONE
    /\ lastLevelArg = <<>>

NextThreads ==
    \/ Compile
    \/ \E f \in ThreadSinks \cup {NULL} : Logging_Init(f)
    \/ \E t \in Threads, macro \in {"LogError", "LogWarn", "LogInfo", "LogDebug"},
          site \in ThreadSites : ThreadLog(t, macro, site)
    \/ \E t \in Threads : ThreadCall(t)
    \/ \E t \in Threads : ThreadWrite(t)
    \/ \E t \in Threads : ThreadWritten(t)
    \/ \E t \in Threads : ThreadUnlock(t)
    \/ \E t \in Threads, st \in SinkStatuses : ThreadReturn(t, st)

SpecThreads == InitThreads /\ [][NextThreads]_vars

(* A thread that can run keeps running: the call through the loaded        *)
(* pointer is taken, and default_log_function (logging.c:48-52), which has *)
(* no loop and takes no lock, returns.  Nothing is assumed of a user sink. *)
DefaultReturn(t) ==
    thread[t].fp = default_log_function /\ ThreadReturn(t, 0)

SpecThreadsFair ==
    /\ SpecThreads
    /\ \A t \in Threads : WF_vars(ThreadCall(t)) /\ WF_vars(DefaultReturn(t))

(***************************************************************************)
(* The composer under the settings the documentation shows and on both     *)
(* kinds of host: LIBRARY_LOG_NAME given with its own brackets             *)
(* (readme.md:128, part_002:211), _WIN32 predefined or not, and a source   *)
(* path that holds both a backslash and a slash, and the float and hex     *)
(* statements of test.c:33-34.  What the sink receives is the composed     *)
(* format string and the argument list; a printf-style sink copies the     *)
(* literal text of the format to the output as it stands.                  *)
(***************************************************************************)
ComposeConfigs ==
    [LIBRARY_LOG_LEVEL :
        {[kind |-> "macro", name |-> n, val |-> 0] : n \in {"LOG_WARN", "LOG_DEBUG"}},
     DISABLE_LOGGING : {FALSE},
     LIBRARY_LOG_NAME : NameSettings \cup {<<"[APP]">>},
     LIBRARY_PRINT_FILE_PATH : BOOLEAN,
     LIBRARY_PRINT_FILENAME_ONLY : BOOLEAN,
     LIBRARY_PRINT_FUNCTION_NAME : BOOLEAN,
     WIN32 : BOOLEAN]

(* Arguments of %x and %f as the call sites of test.c:33-34 pass them: the *)
(* 32 bits of an unsigned as the signed value of the same bits, a double   *)
(* in millionths.                                                          *)
HexArg(i) == [t |-> "x", s |-> "", i |-> i]
FloatArg(micro) == [t |-> "f", s |-> "", i |-> micro]

ComposeSites ==
    CallSites \cup
    {[file |-> <<"d", "\\", "e", "/", "w", ".", "c">>, line |-> 9,
      func |-> "poll", fmt |-> <<"n=", "%d">>, args |-> <<IntArg(-12)>>],
     [file |-> <<"t", ".", "c">>, line |-> 33, func |-> "main",
      fmt |-> <<"float: ", "%f">>, args |-> <<FloatArg(3140000)>>],
     [file |-> <<"t", ".", "c">>, line |-> 34, func |-> "main",
      fmt |-> <<"hex: 0x", "%x">>, args |-> <<HexArg(-559038737)>>]}

(* The decimal text vprintf gives for %d. *)
Decimal(n) == IF n < 0 THEN "-" \o LOGGING_STRINGIZE(0 - n) ELSE LOGGING_STRINGIZE(n)

InitCompose ==
    /\ cfg \in ComposeConfigs
    /\ build = "pending"
    /\ log_function = NULL
    /\ lastInitArg = "none"
    /\ nExec = 0
    /\ nActive = 0
    /\ calls = <<>>
    /\ lastCall = NoCall
    /\ macroValue = <<>>
    /\ lastExec = NoExec
    /\ nOutput = 0
    /\ halted = "no"
    /\ queryResult = NoResult
    /\ thread = [t \in Threads |-> IdleThread]
    /\ log_mutex = 0
    /\ logging_level = LOG_NONE
    /\ lastLevelArg = <<>>

NextCompose ==
    \/ Compile
    \/ Logging_Init("main_custom_log_function")
    \/ \E site \in ComposeSites : LogError(site)
    \/ \E site \in ComposeSites : LogWarn(site)
    \/ \E site \in ComposeSites : LogInfo(site)
    \/ \E site \in ComposeSites : LogDebug(site)

SpecCompose == InitCompose /\ [][NextCompose]_vars

(***************************************************************************)
(* The variant of logging.c whose Logging_Init takes a threshold           *)
(* (src/unnamed/part_006, declared in part_003:20).  Its parameter is      *)
(* named logging_level like the file-scope variable and so hides it: the   *)
(* assignments of l.35 and l.39 write the parameter, which is gone when    *)
(* the function returns.  The message layout plays no part, so one layout  *)
(* is kept.                                                                *)
(***************************************************************************)
LevelArgs == -1..5
LevelConfigs ==
    [LIBRARY_LOG_LEVEL : LevelSettings,
     DISABLE_LOGGING : BOOLEAN,
     LIBRARY_LOG_NAME : {<<"APP">>},
     LIBRARY_PRINT_FILE_PATH : {FALSE},
     LIBRARY_PRINT_FILENAME_ONLY : {FALSE},
     LIBRARY_PRINT_FUNCTION_NAME : {TRUE},
     WIN32 : {FALSE}]

(* part_006:22-41 *)
Logging_Init2(level, log_func) ==
    /\ Running
    /\ log_function' = IF log_func # NULL THEN log_func
                       ELSE default_log_function
    /\ LET parameter == IF level <= LOG_DEBUG THEN level ELSE LOG_DEBUG
       IN logging_level' = logging_level
    /\ lastInitArg' = log_func
    /\ lastLevelArg' = <<level>>
    /\ UNCHANGED <<cfg, build, nExec, nActive, calls, lastCall, macroValue, lastExec,
                   nOutput, halted, queryResult, thread, log_mutex>>

InitLevel ==
    /\ cfg \in LevelConfigs
    /\ build = "pending"
    /\ log_function = NULL
    /\ lastInitArg = "none"
    /\ nExec = 0
    /\ nActive = 0
    /\ calls = <<>>
    /\ lastCall = NoCall
    /\ macroValue = <<>>
    /\ lastExec = NoExec
    /\ nOutput = 0
    /\ halted = "no"
    /\ queryResult = NoResult
    /\ thread = [t \in Threads |-> IdleThread]
    /\ log_mutex = 0
    /\ logging_level = LOG_NONE
    /\ lastLevelArg = <<>>

NextLevel ==
    \/ Compile
    \/ \E level \in LevelArgs, f \in {"main_custom_log_function", NULL} :
          Logging_Init2(level, f)
    \/ \E site \in CallSites : LogError(site)
    \/ \E site \in CallSites : LogWarn(site)
    \/ \E site \in CallSites : LogInfo(site)
    \/ \E site \in CallSites : LogDebug(site)

SpecLevel == InitLevel /\ [][NextLevel]_vars

TypeOK ==
    /\ cfg \in Configs \cup QueryConfigs \cup ThreadConfigs
                 \cup ComposeConfigs \cup LevelConfigs
    /\ build \in {"pending", "accepted", "rejected"}
    /\ log_function \in UserSinks \cup ThreadSinks \cup {NULL, default_log_function}
    /\ lastInitArg \in UserSinks \cup ThreadSinks \cup {NULL, "none"}
    /\ nExec \in 0..MaxExec
    /\ nActive \in 0..nExec
    /\ Len(calls) <= nActive
    /\ \A k \in 1..Len(calls) :
          calls[k] \in UserSinks \cup ThreadSinks \cup {default_log_function}
    /\ lastCall = NoCall \/
          /\ lastCall.target \in UserSinks \cup ThreadSinks \cup {default_log_function}
          /\ lastCall.status \in SinkStatuses
    /\ nOutput \in 0..Len(calls)
    /\ halted \in {"no", "fault", "wild"}
    /\ lastExec.macro \in {"none", "LogError", "LogWarn", "LogInfo", "LogDebug"}
    /\ lastExec = NoExec \/ lastExec.site \in ComposeSites
    /\ queryResult.fn \in {"none", "Logging_GetVersion",
                            "Logging_GetLoggingLevelName",
                            "Logging_GetTopLoggingLevel"}
    /\ \A t \in Threads :
          /\ thread[t].pc \in {"idle", "call"} \cup SinkPcs
          /\ thread[t].fp \in UserSinks \cup ThreadSinks \cup {NULL, default_log_function}
    /\ log_mutex \in {0} \cup Threads
    /\ logging_level \in LOG_NONE..LOG_DEBUG
    /\ macroValue = <<>> \/ (Len(macroValue) = 1 /\ macroValue[1] \in SinkStatuses)
    /\ lastLevelArg = <<>> \/ (Len(lastLevelArg) = 1 /\ lastLevelArg[1] \in LevelArgs)

(***************************************************************************)
(* Vocabulary of the properties.                                           *)
(***************************************************************************)
Threshold == PPValue(cfg.LIBRARY_LOG_LEVEL)
SinkInvoked == Len(calls') = Len(calls) + 1
ActiveExecution == nActive' = nActive + 1
BoundBy(arg) == IF arg # NULL THEN arg ELSE default_log_function
Specifiers(fmt) == SelectSeq(fmt, LAMBDA p : p \in {"%s", "%d", "%x", "%f"})
Pieces(fmt) == {fmt[i] : i \in 1..Len(fmt)}
LastArgs(args, n) == SubSeq(args, Len(args) - n + 1, Len(args))

(***************************************************************************)
(* C1  Monotonic gating: with the kill-switch off and a sink bound, an     *)
(* execution of the level-L macro invokes the sink if and only if L is at  *)
(* most the threshold; at threshold LOG_NONE no macro invokes it.          *)
(* (Each line reads "the step is an execution of that macro => the sink is *)
(* invoked iff the level is at most the threshold", consequent first.)     *)
(***************************************************************************)
C1_MonotonicGating ==
    [][\A site \in CallSites :
         (nExec' = nExec + 1 /\ ~cfg.DISABLE_LOGGING /\ log_function # NULL) =>
            /\ (SinkInvoked <=> LOG_ERROR <= Threshold) \/ ~LogError(site)
            /\ (SinkInvoked <=> LOG_WARN <= Threshold) \/ ~LogWarn(site)
            /\ (SinkInvoked <=> LOG_INFO <= Threshold) \/ ~LogInfo(site)
            /\ (SinkInvoked <=> LOG_DEBUG <= Threshold) \/ ~LogDebug(site)
            /\ (Threshold = LOG_NONE => ~SinkInvoked)]_vars

(* Threshold LOG_WARN, sink bound: one macro was gated, one reached a sink. *)
C1_Witness ==
    /\ ~cfg.DISABLE_LOGGING
    /\ cfg.LIBRARY_LOG_LEVEL.kind = "macro"
    /\ Threshold = LOG_WARN
    /\ lastInitArg # "none"
    /\ nExec >= 2
    /\ nActive = 1
    /\ Len(calls) = 1
    /\ lastCall.target \in UserSinks

(***************************************************************************)
(* C2  Global kill switch: when DISABLE_LOGGING is defined no sink is ever *)
(* invoked and nothing is written, at any threshold and prefix setting,    *)
(* in any sequence of Logging_Init and logging calls.                      *)
(***************************************************************************)
C2_KillSwitch ==
    cfg.DISABLE_LOGGING =>
        /\ calls = <<>>
        /\ lastCall = NoCall
        /\ nOutput = 0

(* Kill-switch on, threshold LOG_DEBUG, a user sink bound, macros executed. *)
C2_Witness ==
    /\ cfg.DISABLE_LOGGING
    /\ cfg.LIBRARY_LOG_LEVEL.kind = "macro"
    /\ Threshold = LOG_DEBUG
    /\ log_function \in UserSinks
    /\ nExec >= 2

(***************************************************************************)
(* C3  Logging before initialization is safe: while Logging_Init has never *)
(* been called, an executed logging macro does not fault and produces no   *)
(* output.                                                                 *)
(***************************************************************************)
C3_SafeBeforeInit ==
    lastInitArg = "none" => (halted = "no" /\ nOutput = 0)

(***************************************************************************)
(* C4  Null-sink substitution: after Logging_Init(NULL) the pointer is the *)
(* built-in no-op, never NULL; an active logging call then completes       *)
(* without fault, enters no user sink, writes nothing, and the no-op       *)
(* returns 0.                                                              *)
(***************************************************************************)
C4_NullSinkSubstitution ==
    /\ [](lastInitArg = NULL => log_function = default_log_function)
    /\ [][(lastInitArg = NULL /\ ActiveExecution) =>
            /\ halted' = "no"
            /\ calls' = Append(calls, default_log_function)
            /\ lastCall'.target = default_log_function
            /\ lastCall'.status = 0
            /\ nOutput' = nOutput]_vars

(* After Logging_Init(NULL) an active call went to the no-op. *)
C4_Witness ==
    /\ lastInitArg = NULL
    /\ nActive >= 1
    /\ lastCall.target = default_log_function
    /\ Len(calls) = nActive

(***************************************************************************)
(* C5  Exactly-once dispatch: with a user sink f bound, each execution of  *)
(* an active logging macro performs exactly one call through the pointer,  *)
(* to f; from a binding on, sink invocations and active executions stay    *)
(* equal in number.                                                        *)
(***************************************************************************)
C5_ExactlyOnce ==
    /\ [][(log_function \in UserSinks /\ ActiveExecution) =>
            /\ calls' = Append(calls, log_function)
            /\ lastCall'.target = log_function
            /\ nOutput' = nOutput + 1]_vars
    /\ [][(lastInitArg # "none" /\ Len(calls) = nActive) => Len(calls') = nActive']_vars

(* Two active executions after Logging_Init(f), both entered f. *)
C5_Witness ==
    /\ lastInitArg \in UserSinks
    /\ nActive >= 2
    /\ Len(calls) = nActive
    /\ \A i \in 1..Len(calls) : calls[i] = lastInitArg

(***************************************************************************)
(* C6  Re-initialization, last writer wins: after any sequence of          *)
(* Logging_Init calls the bound sink is the one the latest argument        *)
(* determines; every later sink invocation enters that sink, and a         *)
(* Logging_Init never halts the program.                                   *)
(***************************************************************************)
C6_LastWriterWins ==
    /\ [](lastInitArg # "none" => log_function = BoundBy(lastInitArg))
    /\ [][(lastInitArg # "none" /\ SinkInvoked) =>
            calls'[Len(calls')] = BoundBy(lastInitArg)]_vars
    /\ [][lastInitArg' # lastInitArg => halted' = "no"]_vars

(* Two initializations with different sinks, a call after each. *)
C6_Witness ==
    /\ Len(calls) >= 2
    /\ calls[1] \in UserSinks
    /\ calls[1] # calls[Len(calls)]
    /\ calls[Len(calls)] = BoundBy(lastInitArg)

(***************************************************************************)
(* C7  No Bound -> Unbound transition: once a Logging_Init call has        *)
(* returned, log_function is non-null in every later state.                *)
(***************************************************************************)
C7_NeverUnboundAgain ==
    lastInitArg # "none" => log_function # NULL

(* Initialized twice, the second time with NULL, then logging and a query. *)
C7_Witness ==
    /\ lastInitArg = NULL
    /\ calls # <<>>
    /\ calls[1] \in UserSinks
    /\ nExec >= 2
    /\ queryResult # NoResult
    /\ log_function # NULL

(***************************************************************************)
(* C8  Build-time threshold validation: a build whose LIBRARY_LOG_LEVEL is *)
(* undefined or is anything but one of the five level constants is         *)
(* rejected, never accepted.                                               *)
(***************************************************************************)
C8_InvalidThresholdRejected ==
    cfg.LIBRARY_LOG_LEVEL.kind # "macro" => build # "accepted"

(***************************************************************************)
(* C9  Line number spliced into the literal: for an active call with       *)
(* function-name printing off (and no run-time file name), the message     *)
(* passed to the sink is tag, prefix, ':', the decimal line number,        *)
(* ' - ', the caller's format, CR LF, and the arguments passed are exactly *)
(* the caller's.                                                           *)
(***************************************************************************)
C9_LineInLiteral ==
    [][\A site \in CallSites :
         (/\ SinkInvoked
          /\ ActiveExecution
          /\ ~cfg.LIBRARY_PRINT_FUNCTION_NAME
          /\ LOG_METADATA_ARG(cfg, site) = <<>>
          /\ LogError(site)) =>
            /\ Flat(lastCall'.fmt) =
                  "[ERROR] " \o Flat(LOG_METADATA_FMT(cfg, site)) \o ":"
                  \o LOGGING_LINE_STRING(site) \o " - " \o Flat(site.fmt)
                  \o "\r\n"
            /\ lastCall'.args = site.args]_vars

(***************************************************************************)
(* C10  Argument forwarding order: in every sink call the caller's         *)
(* arguments are the last arguments, unchanged in value, count and order;  *)
(* with function-name printing on, the function name is an argument that   *)
(* precedes them, is matched by a %s of the format, and is not part of the *)
(* literal.  (Read: a step that is an execution of a logging macro at      *)
(* site and invokes the sink passes arguments of that shape.)              *)
(***************************************************************************)
C10_ForwardingOrder ==
    [][\A site \in CallSites :
         SinkInvoked =>
            \/ LET a == lastCall'.args
                   f == lastCall'.fmt
                   inserted == Len(a) - Len(site.args)
               IN /\ inserted >= 0
                  /\ LastArgs(a, Len(site.args)) = site.args
                  /\ cfg.LIBRARY_PRINT_FUNCTION_NAME =>
                        /\ \E k \in 1..inserted :
                             /\ a[k] = StrArg(site.func)
                             /\ k <= Len(Specifiers(f))
                             /\ Specifiers(f)[k] = "%s"
                        /\ site.func \notin Pieces(f)
            \/ ~(LogError(site) \/ LogWarn(site) \/ LogInfo(site)
                    \/ LogDebug(site))]_vars

(* Function names on: a call with two caller arguments reached a user sink. *)
C10_Witness ==
    /\ cfg.LIBRARY_PRINT_FUNCTION_NAME
    /\ lastCall.target \in UserSinks
    /\ Len(lastCall.args) >= 4
    /\ LastArgs(lastCall.args, 2) = <<StrArg("x"), IntArg(3)>>
    /\ StrArg("run") \in {lastCall.args[i] : i \in 1..2}

(***************************************************************************)
(* C11.  The prefix block of a message is fixed by the build               *)
(* configuration alone: with neither a module name nor file-path printing  *)
(* it is empty; with a module name only it is "[<name>] "; with file-path  *)
(* printing only it is "(<path>) "; with both it is the bracketed module   *)
(* tag followed by the parenthesised path.  The block sits between the     *)
(* severity tag and the location suffix, and the four combinations give    *)
(* four different layouts.  (The filename-only mode is a third file mode   *)
(* outside this table.)                                                    *)
(***************************************************************************)
NameBlock(name) == IF name = <<>> THEN "" ELSE "[" \o Flat(name) \o "] "
PathBlock(on, site) == IF on THEN "(" \o Flat(site.file) \o ") " ELSE ""
PrefixTable(name, on, site) == NameBlock(name) \o PathBlock(on, site)
FilePathMode(c) == c.LIBRARY_PRINT_FILE_PATH \/ ~c.LIBRARY_PRINT_FILENAME_ONLY
TableConfig(name, on) ==
    [cfg EXCEPT !.LIBRARY_LOG_NAME = name, !.LIBRARY_PRINT_FILE_PATH = on,
                !.LIBRARY_PRINT_FILENAME_ONLY = FALSE]
TableRows == {<<>>, <<"APP">>} \X BOOLEAN

C11_PrefixTable ==
    (lastCall # NoCall /\ FilePathMode(cfg)) =>
        LET site == lastExec.site
        IN /\ Flat(lastCall.fmt) =
                 lastCall.fmt[1]
                    \o PrefixTable(cfg.LIBRARY_LOG_NAME,
                                   cfg.LIBRARY_PRINT_FILE_PATH, site)
                    \o Flat(FUNCTION_INFO_FMT(cfg)) \o Flat(site.fmt)
                    \o "\r\n"
           /\ \A r1, r2 \in TableRows :
                 r1 # r2 =>
                    Flat(LOG_METADATA_FMT(TableConfig(r1[1], r1[2]), site))
                       # Flat(LOG_METADATA_FMT(TableConfig(r2[1], r2[2]), site))

C11_Witness ==
    /\ cfg.LIBRARY_LOG_NAME = <<"APP">>
    /\ cfg.LIBRARY_PRINT_FILE_PATH
    /\ ~cfg.LIBRARY_PRINT_FUNCTION_NAME
    /\ lastExec.macro = "LogInfo"
    /\ lastExec.site.func = "doWork"
    /\ lastCall.target \in UserSinks
    /\ Flat(lastCall.fmt) = "[INFO]  [APP] (s/a.c) :%s - ok\r\n"

(***************************************************************************)
(* C12.  In every configuration and at every active level the message      *)
(* handed to the sink ends with carriage return + line feed, and the       *)
(* caller's format string stands unmodified immediately before that        *)
(* terminator.                                                             *)
(***************************************************************************)
EndsWith(fmt, tail) ==
    /\ Len(fmt) >= Len(tail)
    /\ SubSeq(fmt, Len(fmt) - Len(tail) + 1, Len(fmt)) = tail

C12_Terminator ==
    lastCall # NoCall =>
        /\ EndsWith(lastCall.fmt, lastExec.site.fmt \o <<"\r\n">>)
        /\ lastCall.fmt[Len(lastCall.fmt)] = "\r\n"
        /\ Len(lastCall.fmt[Len(lastCall.fmt)]) = 2

C12_Witness ==
    /\ lastCall.target \in UserSinks
    /\ lastExec.macro = "LogDebug"
    /\ lastExec.site.func = "run"
    /\ cfg.LIBRARY_PRINT_FUNCTION_NAME
    /\ EndsWith(lastCall.fmt, <<"%s", "=", "%d", "\r\n">>)

(***************************************************************************)
(* C13.  Every composed message starts with the severity tag of the macro  *)
(* that produced it: "[ERROR] ", "[WARN]  ", "[INFO]  " or "[DEBUG] ", and *)
(* the four tags have the same length.                                     *)
(***************************************************************************)
SeverityTag(macro) ==
    CASE macro = "LogError" -> "[ERROR] "
      [] macro = "LogWarn" -> "[WARN]  "
      [] macro = "LogInfo" -> "[INFO]  "
      [] macro = "LogDebug" -> "[DEBUG] "

C13_FixedWidthTag ==
    lastCall # NoCall =>
        /\ lastCall.fmt[1] = SeverityTag(lastExec.macro)
        /\ Len(lastCall.fmt[1]) = Len("[ERROR] ")

C13_Witness ==
    /\ lastExec.macro = "LogWarn"
    /\ lastCall.fmt[1] = "[WARN]  "
    /\ lastCall.target = default_log_function
    /\ nActive >= 2

(***************************************************************************)
(* C14.  Logging_GetLoggingLevelName returns "LOG_NONE", "LOG_ERROR",      *)
(* "LOG_WARN", "LOG_INFO" and "LOG_DEBUG" for 0, 1, 2, 3 and 4, five       *)
(* different names, and "UNKNOWN_LEVEL" for every other integer, negative  *)
(* or above 4.                                                             *)
(***************************************************************************)
NameTable == <<"LOG_NONE", "LOG_ERROR", "LOG_WARN", "LOG_INFO", "LOG_DEBUG">>

C14_LevelNames ==
    /\ queryResult.fn = "Logging_GetLoggingLevelName" =>
          LET level == queryResult.arg
              name == queryResult.ret.s
          IN /\ queryResult.ret.t = "s"
             /\ level \in 0..4 => name = NameTable[level + 1]
             /\ level \notin 0..4 => name = "UNKNOWN_LEVEL"
    /\ \A a, b \in 0..4 :
          a # b => Logging_GetLoggingLevelName(a) # Logging_GetLoggingLevelName(b)

C14_Witness ==
    /\ queryResult.fn = "Logging_GetLoggingLevelName"
    /\ queryResult.arg = INT_MIN
    /\ queryResult.ret = StrArg("UNKNOWN_LEVEL")
    /\ nActive >= 1

(***************************************************************************)
(* C16.  The three queries are read-only: a call of Logging_GetVersion,    *)
(* Logging_GetLoggingLevelName or Logging_GetTopLoggingLevel changes       *)
(* neither the bound sink nor any other state of the facade, never invokes *)
(* the sink, may be made while no sink is bound without a fault, and       *)
(* returns a value that depends on its input alone, whatever Logging_Init  *)
(* and logging calls came before.                                          *)
(***************************************************************************)
QueryStep == queryResult' # queryResult
QueryValue(fn, arg) ==
    CASE fn = "Logging_GetVersion" -> StrArg(LOGGING_VERSION)
      [] fn = "Logging_GetLoggingLevelName" ->
            StrArg(Logging_GetLoggingLevelName(arg))
      [] fn = "Logging_GetTopLoggingLevel" -> IntArg(cfg.LOGGING_TOP_LOG_LEVEL)

C16_QueriesReadOnly ==
    /\ [][QueryStep =>
            /\ UNCHANGED <<logging_level, lastLevelArg, thread, log_mutex,
                           cfg, build, log_function, lastInitArg, nExec,
                           nActive, calls, lastCall, macroValue, lastExec, nOutput,
                           halted>>
            /\ queryResult'.ret = QueryValue(queryResult'.fn, queryResult'.arg)]_vars
    /\ []((build = "accepted" /\ halted = "no") =>
            /\ ENABLED Logging_GetVersion
            /\ ENABLED Call_GetTopLoggingLevel
            /\ \A level \in QueryLevels :
                  ENABLED Call_GetLoggingLevelName(level))

C16_Witness ==
    /\ log_function = NULL
    /\ lastInitArg = "none"
    /\ queryResult.fn = "Logging_GetTopLoggingLevel"
    /\ queryResult.ret = IntArg(LOG_INFO)
    /\ Threshold = LOG_ERROR
    /\ halted = "no"
    /\ nExec >= 1

(* The parts of C15 that do not concern the caller: one invocation for     *)
(* every status, the binding kept, the next call the same.                 *)
C15_OnceAndUnchanged ==
    /\ [][\A st \in SinkStatuses :
            (calls' # calls /\ lastCall'.status = st) =>
               /\ calls' = Append(calls, log_function)
               /\ nActive' = nActive + 1
               /\ log_function' = log_function
               /\ lastInitArg' = lastInitArg
               /\ halted' = "no"]_vars
    /\ [][(lastCall.status # 0 /\ ActiveExecution) =>
            /\ calls' = Append(calls, log_function)
            /\ lastCall'.target = log_function
            /\ halted' = "no"]_vars
    /\ [](lastCall.status # 0 =>
            (halted = "no" /\ log_function = BoundBy(lastInitArg)))

(* No expansion has evaluated to a sink status at its call site. *)
NoSignal == macroValue = <<>>

(***************************************************************************)
(* C15.  The status a sink returns is ignored: whatever integer the bound  *)
(* sink returns (zero, positive or negative), the logging call has invoked *)
(* it exactly once, nothing is retried or escalated, the caller is given   *)
(* no success or failure signal, the bound sink stays the same, and a      *)
(* logging call that follows a non-zero status behaves like one that       *)
(* follows a zero status: it invokes the bound sink once.                  *)
(***************************************************************************)
C15_StatusIgnored ==
    /\ C15_OnceAndUnchanged
    /\ []NoSignal

(***************************************************************************)
(* C18.  There is one sink binding for the whole process, read by the call *)
(* sites of every translation unit: every call that reaches a sink, from   *)
(* whichever file, enters the sink log_function holds, and once the        *)
(* example module has called Logging_Init with its own sink, the calls     *)
(* made by the main program go to the module's sink, no longer to the one  *)
(* the main program bound.                                                 *)
(***************************************************************************)
MainSink == "main_custom_log_function"
ModuleSink == "module_custom_log_function"

C18_SharedSink ==
    /\ [][calls' # calls =>
            /\ lastCall'.target = log_function
            /\ lastExec'.site \in CallSites
            /\ lastInitArg = ModuleSink =>
                  (lastCall'.target = ModuleSink
                     /\ calls'[Len(calls')] = ModuleSink)]_vars
    /\ [](lastInitArg = ModuleSink => log_function = ModuleSink)

C18_Witness ==
    /\ calls = <<MainSink, ModuleSink>>
    /\ lastInitArg = ModuleSink
    /\ lastExec.site.func = "main"
    /\ lastExec.site.file = <<"m", ".", "c">>
    /\ lastCall.target = ModuleSink

(***************************************************************************)
(* C19.  Executing a logging macro, active or disabled, leaves             *)
(* log_function unchanged; only Logging_Init changes which sink is bound.  *)
(***************************************************************************)
C19_MacrosKeepBinding ==
    /\ [][nExec' # nExec => log_function' = log_function]_vars
    /\ [][log_function' # log_function =>
            \E f \in UserSinks \cup {NULL} : Logging_Init(f)]_vars

C19_Witness ==
    /\ log_function = MainSink
    /\ lastInitArg = MainSink
    /\ calls = <<MainSink>>
    /\ nExec = 2
    /\ nActive = 1
    /\ ~cfg.DISABLE_LOGGING

(***************************************************************************)
(* C20.  A logging macro whose level is above the threshold, and every     *)
(* logging macro when DISABLE_LOGGING is defined, expands to nothing: its  *)
(* execution calls no sink, changes no state and cannot fault, also while  *)
(* no sink is bound.                                                       *)
(***************************************************************************)
Disabled(level) == cfg.DISABLE_LOGGING \/ level > Threshold
Quiet ==
    UNCHANGED <<logging_level, lastLevelArg, thread, log_mutex,
                cfg, build, log_function, lastInitArg, nActive, calls,
                lastCall, macroValue, lastExec, nOutput, halted, queryResult>>

C20_DisabledCallsDoNothing ==
    [][nExec' # nExec =>
         \/ Quiet
         \/ \A site \in CallSites :
              /\ ~Disabled(LOG_ERROR) \/ ~LogError(site)
              /\ ~Disabled(LOG_WARN) \/ ~LogWarn(site)
              /\ ~Disabled(LOG_INFO) \/ ~LogInfo(site)
              /\ ~Disabled(LOG_DEBUG) \/ ~LogDebug(site)]_vars

C20_Witness ==
    /\ ~cfg.DISABLE_LOGGING
    /\ cfg.LIBRARY_LOG_LEVEL.kind = "macro"
    /\ Threshold = LOG_ERROR
    /\ log_function = NULL
    /\ lastInitArg = "none"
    /\ nExec = 2
    /\ nActive = 0
    /\ halted = "no"

(***************************************************************************)
(* C17.  The facade does not serialize concurrent callers: a thread that   *)
(* has loaded the pointer can always make its call, wherever the other     *)
(* thread is, so two threads can be inside the same bound sink at the same *)
(* time.  Mutual exclusion holds only where the sink enforces it: in the   *)
(* sink that takes a mutex at most one thread writes at a time, in the     *)
(* sink that takes none both threads can be writing.                       *)
(***************************************************************************)
InsideSink(t) == thread[t].pc \in SinkPcs
HoldsMutex(t) == thread[t].pc \in {"writing", "written"} /\ thread[t].fp = ThreadSafeSink
Writing(t, sink) == thread[t].pc = "writing" /\ thread[t].fp = sink

C17_NoSerialization ==
    /\ \A t \in Threads :
          (build = "accepted" /\ halted = "no" /\ thread[t].pc = "call") =>
              ENABLED ThreadCall(t)
    /\ \A t, u \in Threads :
          (Writing(t, ThreadSafeSink) /\ Writing(u, ThreadSafeSink)) => t = u
    /\ \A t \in Threads : HoldsMutex(t) <=> log_mutex = t

C17_Witness ==
    /\ log_function = MainSink
    /\ \A t \in Threads : Writing(t, MainSink)
    /\ calls = <<MainSink, MainSink>>
    /\ nOutput = 0

(***************************************************************************)
(* C21.  With the module name configured as the documentation shows it,    *)
(* "[APP]" with the brackets in the configured string, file path and       *)
(* function name off and a printf-style sink, LogError at line 42 renders  *)
(* as "[ERROR] [APP] :42 - <formatted message>" followed by CR LF: the     *)
(* module tag has exactly one pair of square brackets.  Stated on what the *)
(* sink is handed: the literal text of the format, which a printf-style    *)
(* sink copies unchanged, is "[ERROR] [APP] :" before the line's %s and    *)
(* " - ", the caller's format and CR LF after it, and the line's argument  *)
(* is "42", followed by the caller's arguments.                            *)
(***************************************************************************)
C21_DocumentedRendering ==
    (/\ cfg.LIBRARY_LOG_NAME = <<"[APP]">>
     /\ ~cfg.LIBRARY_PRINT_FILE_PATH
     /\ ~cfg.LIBRARY_PRINT_FILENAME_ONLY
     /\ ~cfg.LIBRARY_PRINT_FUNCTION_NAME
     /\ lastExec.macro = "LogError"
     /\ lastExec.site.line = 42
     /\ lastCall.target \in UserSinks) =>
        /\ Flat(lastCall.fmt) =
              "[ERROR] [APP] :%s - " \o Flat(lastExec.site.fmt) \o "\r\n"
        /\ lastCall.args = <<StrArg("42")>> \o lastExec.site.args

(***************************************************************************)
(* C22.  In each of the twelve configurations {module name on/off} x {no   *)
(* file, full path, filename only} x {function name on/off} the composer   *)
(* adds as many %s specifiers before the caller's format as it inserts     *)
(* arguments before the caller's arguments, in the same order: filename,   *)
(* then function name, then line string; so each specifier of the caller   *)
(* is paired with the caller's argument at the same position.              *)
(***************************************************************************)
SuffixTexts(path) == {Flat(SubSeq(path, k, Len(path))) : k \in 1..Len(path)}
FilenameMode(c) == c.LIBRARY_PRINT_FILENAME_ONLY /\ ~c.LIBRARY_PRINT_FILE_PATH

C22_SpecifiersMatchArguments ==
    lastCall # NoCall =>
        LET site == lastExec.site
            f == lastCall.fmt
            a == lastCall.args
            added == Specifiers(SubSeq(f, 1, Len(f) - Len(site.fmt) - 1))
            n == Len(a) - Len(site.args)
            want == (IF FilenameMode(cfg) THEN 1 ELSE 0)
                       + (IF cfg.LIBRARY_PRINT_FUNCTION_NAME THEN 1 ELSE 0) + 1
        IN /\ n = want
           /\ Len(added) = n
           /\ \A k \in 1..n : added[k] = "%s" /\ a[k].t = "s"
           /\ a[n] = StrArg(Decimal(site.line))
           /\ cfg.LIBRARY_PRINT_FUNCTION_NAME => a[n - 1] = StrArg(site.func)
           /\ FilenameMode(cfg) => a[1].s \in SuffixTexts(site.file)
           /\ \A k \in 1..Len(site.args) :
                 /\ a[n + k] = site.args[k]
                 /\ Specifiers(f)[n + k] = Specifiers(site.fmt)[k]
                 /\ Specifiers(f)[n + k] = "%" \o a[n + k].t

C22_Witness ==
    /\ FilenameMode(cfg)
    /\ cfg.LIBRARY_PRINT_FUNCTION_NAME
    /\ cfg.LIBRARY_LOG_NAME = <<"APP">>
    /\ ~cfg.WIN32
    /\ lastExec.site.func = "run"
    /\ lastCall.args = <<StrArg("t.c"), StrArg("run"), StrArg("120"),
                         StrArg("x"), IntArg(3)>>
    /\ Specifiers(lastCall.fmt) = <<"%s", "%s", "%s", "%s", "%d">>

(***************************************************************************)
(* C28.  In filename-only mode (LIBRARY_PRINT_FILENAME_ONLY without        *)
(* LIBRARY_PRINT_FILE_PATH) the file argument handed to the sink is the    *)
(* part of the source path after its last path separator, or the whole     *)
(* path when it has none: a suffix of the path with no separator in it.    *)
(* On a host where _WIN32 is predefined both the backslash and the slash   *)
(* separate directories; elsewhere only the slash does.                    *)
(***************************************************************************)
Chars(s) == {s[i] : i \in 1..Len(s)}
Separators(c) == IF c.WIN32 THEN {"\\", "/"} ELSE {"/"}

C28_FilenameOnly ==
    (lastCall # NoCall /\ FilenameMode(cfg)) =>
        LET path == lastExec.site.file
            seps == Separators(cfg)
            cuts == {k \in 0..Len(path) :
                       /\ k > 0 => path[k] \in seps
                       /\ k = 0 => Chars(path) \cap seps = {}
                       /\ Chars(SubSeq(path, k + 1, Len(path))) \cap seps = {}}
        IN /\ lastCall.args[1].t = "s"
           /\ \E k \in cuts :
                 lastCall.args[1].s = Flat(SubSeq(path, k + 1, Len(path)))

(***************************************************************************)
(* C25.  The value T that Logging_GetTopLoggingLevel returns is the        *)
(* threshold that gates the caller's macros: for each level L of ERROR,    *)
(* WARN, INFO and DEBUG the caller's level-L macro has a body if and only  *)
(* if L <= T, and T is one of the five level constants.                    *)
(***************************************************************************)
C25_QueryAgreesWithGate ==
    (build = "accepted" /\ queryResult.fn = "Logging_GetTopLoggingLevel") =>
        LET T == queryResult.ret.i
        IN /\ T \in {LOG_NONE, LOG_ERROR, LOG_WARN, LOG_INFO, LOG_DEBUG}
           /\ LogErrorDefined(cfg) <=> LOG_ERROR <= T
           /\ LogWarnDefined(cfg) <=> LOG_WARN <= T
           /\ LogInfoDefined(cfg) <=> LOG_INFO <= T
           /\ LogDebugDefined(cfg) <=> LOG_DEBUG <= T

(***************************************************************************)
(* C23.  In the variant of Logging_Init that takes a threshold,            *)
(* Logging_Init(level, f) persists it: after the call the file-scope       *)
(* logging_level equals level when level <= LOG_DEBUG, and LOG_DEBUG when  *)
(* level > LOG_DEBUG.                                                      *)
(***************************************************************************)
C23_PersistedThreshold ==
    lastLevelArg # <<>> =>
        logging_level = IF lastLevelArg[1] <= LOG_DEBUG THEN lastLevelArg[1]
                        ELSE LOG_DEBUG

(***************************************************************************)
(* C24.  The threshold given at run time has no influence on emission:     *)
(* whatever threshold argument the latest Logging_Init(level, f) had, an   *)
(* execution of the level-L macro invokes the bound sink if and only if L  *)
(* is at most the compile-time threshold, so two runs that differ only in  *)
(* that argument make the same sink invocations.                           *)
(***************************************************************************)
C24_RuntimeThresholdInert ==
    [][\A a \in LevelArgs, site \in CallSites :
         (/\ lastLevelArg = <<a>>
          /\ nExec' = nExec + 1
          /\ ~cfg.DISABLE_LOGGING
          /\ log_function # NULL) =>
            /\ (calls' = Append(calls, log_function) <=> LOG_ERROR <= Threshold)
                  \/ ~LogError(site)
            /\ (calls' = Append(calls, log_function) <=> LOG_WARN <= Threshold)
                  \/ ~LogWarn(site)
            /\ (calls' = Append(calls, log_function) <=> LOG_INFO <= Threshold)
                  \/ ~LogInfo(site)
            /\ (calls' = Append(calls, log_function) <=> LOG_DEBUG <= Threshold)
                  \/ ~LogDebug(site)
            /\ UNCHANGED <<logging_level, lastLevelArg>>]_vars

C24_Witness ==
    /\ lastLevelArg = <<LOG_NONE>>
    /\ Threshold = LOG_DEBUG
    /\ cfg.LIBRARY_LOG_LEVEL.kind = "macro"
    /\ lastExec.macro = "LogDebug"
    /\ calls = <<MainSink, MainSink>>
    /\ nExec = 2

(***************************************************************************)
(* C26.  If the first Logging_Init has returned before a thread starts a   *)
(* logging call, that call never reads an unbound (NULL) sink, whatever    *)
(* re-initialisations are interleaved with logging, and the only calls     *)
(* that go wrong are those that loaded NULL.  A logging call that          *)
(* interleaves with the first Logging_Init of another thread can read the  *)
(* unbound sink: it loaded the pointer before the store.                   *)
(***************************************************************************)
StartsCall(t) == thread[t].pc = "idle" /\ thread'[t].pc = "call"

C26_InitBeforeLogging ==
    /\ [][\A t \in Threads :
            (lastInitArg # "none" /\ StartsCall(t)) =>
               (thread'[t].fp # NULL /\ thread'[t].fp = log_function)]_vars
    /\ [][(halted = "no" /\ halted' # "no") =>
            \E t \in Threads : thread[t].pc = "call" /\ thread[t].fp = NULL]_vars
    /\ [](lastInitArg # "none" => log_function # NULL)

C26_Witness ==
    /\ lastInitArg \in ThreadSinks
    /\ log_function = lastInitArg
    /\ \E t \in Threads : thread[t].pc = "call" /\ thread[t].fp = NULL
    /\ halted = "no"

(***************************************************************************)
(* C27.  An active logging call returns to its caller if and only if the   *)
(* invocation of the bound sink returns: the step in which the sink        *)
(* returns is the step in which the call returns, with no timeout,         *)
(* cancellation, loop or retry in between.  With the no-op sink the call   *)
(* always terminates (unless the process has been brought down by an       *)
(* unbound call of another thread).                                        *)
(***************************************************************************)
SinkReturns(t) == InsideSink(t) /\ thread'[t].pc \notin SinkPcs
CallReturns(t) == thread[t].pc # "idle" /\ thread'[t].pc = "idle"

C27_BlocksAsLongAsSink ==
    /\ [][\A t \in Threads :
            thread[t].fp # NULL => (SinkReturns(t) <=> CallReturns(t))]_vars
    /\ \A t \in Threads :
          (thread[t].pc = "call" /\ thread[t].fp = default_log_function)
             ~> (thread[t].pc = "idle" \/ halted # "no")

C27_Witness ==
    /\ lastCall.target = default_log_function
    /\ calls = <<MainSink, default_log_function>>
    /\ \E t, u \in Threads :
          /\ thread[t].pc = "writing"
          /\ thread[t].fp = MainSink
          /\ thread[u].pc = "idle"
    /\ nOutput = 0

====
